---- MODULE Spec2Model ----
(***************************************************************************)
(* A model of the RAG answer-generation pipeline of S_Chatbot:             *)
(* the session manager and generate_answer of core/chatbot.py, the chat    *)
(* and session routes of api/routes.py, the document registry of           *)
(* core/document_manager.py with the vector index of rag/vector_store.py,  *)
(* and the article table as integration_manager.py reads and writes it.    *)
(*                                                                         *)
(* Text is a TLA+ string.  A relevance score is an integer number of       *)
(* hundredths (0.75 is 75): the floor of 100 times the float, which keeps  *)
(* every comparison against a two-decimal threshold.                       *)
(***************************************************************************)
EXTENDS Integers, Sequences, FiniteSets, Bags, TLC

VARIABLES
    OPENAI_API_KEY,     \* config.OPENAI_API_KEY is set (TRUE) or empty (FALSE)
    session_histories,  \* Chatbot.session_histories: session id -> list of (user, ai)
    documents,          \* DocumentManager.documents: the registry, a list
    index,              \* the Qdrant collection: the set of stored chunks
    embedded,           \* articles.embedded of the relational store, per article id
    next_id,            \* number of ids generate_id() has handed out
    req,                \* the chat request in flight on the event loop
    result,             \* what the last finished call gave its caller
    appended,           \* history variable: per session, the turns appended since
                        \* that session's history was last empty by construction
    loop                \* the event loop: the bag of requests received and not
                        \* yet handled, and the responses of POST /upload so far

vars == <<OPENAI_API_KEY, session_histories, documents, index, embedded,
          next_id, req, result, appended, loop>>

-----------------------------------------------------------------------------
(* Bounds of the model *)

MaxTurns == 1          \* turns appended to the histories in Spec
MaxSessionTurns == 7   \* turns appended to the histories in SpecSession
MaxRetrieved == 3      \* chunks one retrieval returns in the model
ChunkSize == 6         \* characters per chunk in the model

\* the documents handed to add_document and bulk_add_documents in SpecDocs, and
\* the longest batch
MaxAdded == 3

MaxBatch == 2

\* the turns of a stored history and the messages of a supplied history in
\* SpecMerge
MaxStored == 2

MaxProvided == 3

-----------------------------------------------------------------------------
(* Strings, as Python's str methods treat them *)

Char(s, i) == SubSeq(s, i, i)

IsSpace(c) == c \in {" ", "\n", "\t", "\r"}

LowerChar(c) ==
    CASE c = "A" -> "a" [] c = "B" -> "b" [] c = "C" -> "c" [] c = "D" -> "d"
      [] c = "E" -> "e" [] c = "F" -> "f" [] c = "G" -> "g" [] c = "H" -> "h"
      [] c = "I" -> "i" [] c = "J" -> "j" [] c = "K" -> "k" [] c = "L" -> "l"
      [] c = "M" -> "m" [] c = "N" -> "n" [] c = "O" -> "o" [] c = "P" -> "p"
      [] c = "Q" -> "q" [] c = "R" -> "r" [] c = "S" -> "s" [] c = "T" -> "t"
      [] c = "U" -> "u" [] c = "V" -> "v" [] c = "W" -> "w" [] c = "X" -> "x"
      [] c = "Y" -> "y" [] c = "Z" -> "z" [] OTHER -> c

RECURSIVE Lower(_)
Lower(s) == IF s = "" THEN "" ELSE LowerChar(Head(s)) \o Lower(Tail(s))

RECURSIVE LStrip(_)
LStrip(s) == IF s # "" /\ IsSpace(Head(s)) THEN LStrip(Tail(s)) ELSE s

RECURSIVE RStrip(_)
RStrip(s) ==
    IF s # "" /\ IsSpace(Char(s, Len(s)))
    THEN RStrip(SubSeq(s, 1, Len(s) - 1))
    ELSE s

Strip(s) == RStrip(LStrip(s))

\* Python's  t in s
Contains(s, t) ==
    \E i \in 1..(Len(s) - Len(t) + 1) : SubSeq(s, i, i + Len(t) - 1) = t

\* len(s.split()): the number of maximal runs of non-whitespace characters
WordCount(s) ==
    Cardinality({i \in 1..Len(s) :
        /\ ~IsSpace(Char(s, i))
        /\ (i = 1 \/ IsSpace(Char(s, i - 1)))})

\* s.split("\n")[-1]: the text after the last newline
LastLine(s) ==
    IF Contains(s, "\n")
    THEN LET i == CHOOSE k \in 1..Len(s) :
                    /\ Char(s, k) = "\n"
                    /\ \A j \in (k + 1)..Len(s) : Char(s, j) # "\n"
         IN SubSeq(s, i + 1, Len(s))
    ELSE s

-----------------------------------------------------------------------------
(* Session manager: core/chatbot.py *)

HISTORY_WINDOW == 5

Sessions == {"s1", "s2"}

NoSessions == [s \in {} |-> <<>>]

\* lst[-n:]
LastN(lst, n) ==
    IF Len(lst) > n THEN SubSeq(lst, Len(lst) - n + 1, Len(lst)) ELSE lst

\* get_session_history: the map afterwards (an unseen id gets an empty list)
get_session_history(histories, session_id) ==
    IF session_id \in DOMAIN histories
    THEN histories
    ELSE [s \in DOMAIN histories \cup {session_id} |->
            IF s = session_id THEN <<>> ELSE histories[s]]

\* variants of Truncate: the window is never applied; the newest turns are dropped
TruncateNever(lst) == lst

TruncateOldest(lst) ==
    IF Len(lst) > HISTORY_WINDOW THEN SubSeq(lst, 1, HISTORY_WINDOW) ELSE lst

\* the window of update_session_history: the last 5 interactions are kept
Truncate(lst) ==
    IF Len(lst) > HISTORY_WINDOW THEN LastN(lst, HISTORY_WINDOW) ELSE lst

\* variant of update_session_history: the turn is not appended
UpdateWithoutAppend(histories, session_id, user_message, ai_message) ==
    get_session_history(histories, session_id)

\* update_session_history: the map afterwards
update_session_history(histories, session_id, user_message, ai_message) ==
    LET h == get_session_history(histories, session_id)
    IN  [h EXCEPT ![session_id] =
            Truncate(Append(h[session_id], <<user_message, ai_message>>))]

\* a dict lookup msg[key] raises KeyError
Has(msg, key) == key \in DOMAIN msg

\* provided_history.index(msg): the first position holding an equal message
FirstIndex(lst, msg) == CHOOSE i \in 1..Len(lst) :
    /\ lst[i] = msg
    /\ \A j \in 1..(i - 1) : lst[j] # msg

\* the position _merge_histories looks at for the assistant side of message i
NextIndex(provided_history, i) == FirstIndex(provided_history, provided_history[i]) + 1

\* the loop of _merge_histories raises KeyError at message i
RaisesAt(provided_history, i) ==
    \/ ~Has(provided_history[i], "role")
    \/ /\ provided_history[i].role = "user"
       /\ \/ ~Has(provided_history[i], "content")
          \/ LET n == NextIndex(provided_history, i)
             IN  /\ n <= Len(provided_history)
                 /\ \/ ~Has(provided_history[n], "role")
                    \/ /\ provided_history[n].role = "assistant"
                       /\ ~Has(provided_history[n], "content")

MergeRaises(provided_history) ==
    \E i \in 1..Len(provided_history) : RaisesAt(provided_history, i)

\* formatted_history: one pair per "user" message (defined when nothing raises)
RECURSIVE FormatFrom(_, _)
FormatFrom(provided_history, i) ==
    IF i > Len(provided_history) THEN <<>>
    ELSE LET msg == provided_history[i]
             n == NextIndex(provided_history, i)
             ai_content ==
                 IF n <= Len(provided_history) /\ provided_history[n].role = "assistant"
                 THEN provided_history[n].content
                 ELSE ""
         IN  IF msg.role = "user"
             THEN <<(<<msg.content, ai_content>>)>> \o FormatFrom(provided_history, i + 1)
             ELSE FormatFrom(provided_history, i + 1)

\* variant of AddPairs: a pair already seen is appended again
RECURSIVE AddPairsNoDedup(_, _)
AddPairsNoDedup(merged, lst) ==
    IF lst = <<>> THEN merged
    ELSE IF Head(lst)[1] # ""
         THEN AddPairsNoDedup(Append(merged, Head(lst)), Tail(lst))
         ELSE AddPairsNoDedup(merged, Tail(lst))

\* one pass of the de-duplicating loops: append the pairs of lst to merged
RECURSIVE AddPairs(_, _)
AddPairs(merged, lst) ==
    IF lst = <<>> THEN merged
    ELSE LET pair == Head(lst)
             seen == {merged[k] : k \in 1..Len(merged)}
         IN  IF pair[1] # "" /\ pair \notin seen
             THEN AddPairs(Append(merged, pair), Tail(lst))
             ELSE AddPairs(merged, Tail(lst))

\* variant of merge_histories: the supplied history goes first
MergeProvidedFirst(session_history, provided_history) ==
    AddPairs(AddPairs(<<>>, FormatFrom(provided_history, 1)), session_history)

merge_histories(session_history, provided_history) ==
    AddPairs(AddPairs(<<>>, session_history), FormatFrom(provided_history, 1))

\* recent_history of generate_answer
RecentHistory(merged_history) ==
    IF Len(merged_history) > 5 THEN LastN(merged_history, 5) ELSE merged_history

-----------------------------------------------------------------------------
(* Relevance classifier: core/chatbot.py *)

relevance_threshold == 75

common_queries == <<
    "hi", "hello", "hey", "what's up", "how are you", "greetings",
    "thanks", "thank you", "goodbye", "bye", "see you", "help",
    "what can you do", "who are you", "your name" >>

\* _is_common_query without the test on the number of words
IsCommonPhrase(question) ==
    LET question_lower == Strip(Lower(question))
    IN  \E k \in 1..Len(common_queries) :
           \/ Contains(question_lower, common_queries[k])
           \/ Contains(common_queries[k], question_lower)

is_common_query(question) ==
    LET question_lower == Strip(Lower(question))
    IN  \/ \E k \in 1..Len(common_queries) :
              \/ Contains(question_lower, common_queries[k])
              \/ Contains(common_queries[k], question_lower)
        \/ WordCount(question_lower) <= 2

IsDigit(c) == c \in {"0", "1", "2", "3", "4", "5", "6", "7", "8", "9"}

DigitValue(c) ==
    CASE c = "0" -> 0 [] c = "1" -> 1 [] c = "2" -> 2 [] c = "3" -> 3 [] c = "4" -> 4
      [] c = "5" -> 5 [] c = "6" -> 6 [] c = "7" -> 7 [] c = "8" -> 8 [] c = "9" -> 9

AllDigits(s) == \A i \in 1..Len(s) : IsDigit(Char(s, i))

RECURSIVE Decimal(_)
Decimal(s) ==
    IF s = "" THEN 0
    ELSE 10 * Decimal(SubSeq(s, 1, Len(s) - 1)) + DigitValue(Char(s, Len(s)))

\* float(text) for decimal literals  [sign] digits [. digits]  and for the
\* literals inf, infinity and nan (exponents and digit separators are left
\* out): ok is FALSE where Python raises ValueError, nan is TRUE for a NaN, and
\* value is the number in hundredths, rounded towards zero, an infinity being
\* a value beyond every bound it is compared with.
ParseFloat(text) ==
    LET t == Strip(text)
        signed == t # "" /\ Head(t) \in {"+", "-"}
        body == IF signed THEN Tail(t) ELSE t
        infinite == Lower(body) \in {"inf", "infinity"}
        nan == Lower(body) = "nan"
        dots == {i \in 1..Len(body) : Char(body, i) = "."}
        int_part == IF dots = {} THEN body
                    ELSE SubSeq(body, 1, (CHOOSE i \in dots : TRUE) - 1)
        frac_part == IF dots = {} THEN ""
                     ELSE SubSeq(body, (CHOOSE i \in dots : TRUE) + 1, Len(body))
        decimal == /\ Cardinality(dots) <= 1
                   /\ AllDigits(int_part) /\ AllDigits(frac_part)
                   /\ Len(int_part) + Len(frac_part) > 0
        magnitude == IF infinite THEN 1000000
                     ELSE 100 * Decimal(int_part)
                             + Decimal(SubSeq(frac_part \o "00", 1, 2))
    IN  [ok |-> decimal \/ infinite \/ nan,
         nan |-> nan,
         value |-> IF ~(decimal \/ infinite) THEN 0
                   ELSE IF signed /\ Head(t) = "-" THEN 0 - magnitude ELSE magnitude]

Min(a, b) == IF a <= b THEN a ELSE b
Max(a, b) == IF a >= b THEN a ELSE b

\* variant of ScoreOfResponse: the parsed number is not clamped
ScoreUnclamped(response) ==
    LET stripped == Strip(response)
        parsed == ParseFloat(IF Contains(stripped, "\n") THEN LastLine(stripped)
                             ELSE stripped)
    IN  IF parsed.ok THEN parsed.value ELSE 50

\* the score _check_relevance makes of the relevance chain's completion;
\* min(1.0, nan) is 1.0 in Python, the comparison nan < 1.0 being false
ScoreOfResponse(response) ==
    LET stripped == Strip(response)
        cleaned_response == IF Contains(stripped, "\n") THEN LastLine(stripped)
                            ELSE stripped
        parsed == ParseFloat(cleaned_response)
    IN  IF ~parsed.ok THEN 50
        ELSE IF parsed.nan THEN 100
        ELSE Max(0, Min(100, parsed.value))

-----------------------------------------------------------------------------
(* Document registry, vector index and article table *)

MAX_SEARCH_RESULTS == 5

\* the ids of the rows of the articles table
ArticleIds == {1}

\* a row of the articles table (its embedded flag is the variable embedded)
Article(a) ==
    [id |-> a, title |-> "T", source |-> "coin68", published_at |-> "2025",
     summary |-> "s", content |-> "c"]

\* what the web interface uploads: (content, source)
Uploads == {<<"BTC rose", "wiki">>}

\* text_splitter.split_text: consecutive segments of at most ChunkSize characters
RECURSIVE SplitText(_)
SplitText(content) ==
    IF content = "" THEN <<>>
    ELSE IF Len(content) <= ChunkSize THEN <<content>>
    ELSE <<SubSeq(content, 1, ChunkSize)>>
            \o SplitText(SubSeq(content, ChunkSize + 1, Len(content)))

\* a variant of ChunksOf that numbers the chunks of a document from 1
ChunksFromOne(doc) ==
    LET chunks == SplitText(doc.content)
    IN  {[doc_id |-> doc.id, source |-> doc.source, chunk_id |-> i,
          page_content |-> chunks[i]] : i \in 1..Len(chunks)}

\* the Langchain documents add_document and bulk_add_documents build for a document
ChunksOf(doc) ==
    LET chunks == SplitText(doc.content)
    IN  {[doc_id |-> doc.id, source |-> doc.source, chunk_id |-> i - 1,
          page_content |-> chunks[i]] : i \in 1..Len(chunks)}

\* generate_id(): the k-th id it hands out, k in Uuids
Uuids == {1, 2}

Uuid(k) == <<"uuid", k>>

DocIds(registry) == {registry[i].id : i \in 1..Len(registry)}

\* a variant of WithoutIds: the roll-back leaves an empty registry
RegistryEmptied(registry, doc_ids) == <<>>

\* variants of WithoutIds: nothing is rolled back; only the newest entry is
WithoutIdsKept(registry, doc_ids) == registry

WithoutNewest(registry, doc_ids) ==
    IF registry # <<>> /\ registry[Len(registry)].id \in doc_ids
    THEN SubSeq(registry, 1, Len(registry) - 1)
    ELSE registry

\* [d for d in self.documents if d["id"] not in doc_ids]
RECURSIVE WithoutIds(_, _)
WithoutIds(registry, doc_ids) ==
    IF registry = <<>> THEN <<>>
    ELSE IF Head(registry).id \in doc_ids THEN WithoutIds(Tail(registry), doc_ids)
    ELSE <<Head(registry)>> \o WithoutIds(Tail(registry), doc_ids)

\* the rows load_documents_from_db turns into documents, in id order
RECURSIVE LoadFrom(_, _)
LoadFrom(flags, a) ==
    IF a \notin ArticleIds THEN <<>>
    ELSE LET article == Article(a)
             doc == [id |-> <<"db", article.id>>,
                     content |-> article.title \o "\n\n" \o article.summary
                                    \o "\n\n" \o article.content,
                     source |-> article.title \o " (" \o article.source \o ")"]
         IN  IF flags[a] = 1 /\ article.content # "" /\ article.summary # ""
             THEN <<doc>> \o LoadFrom(flags, a + 1)
             ELSE LoadFrom(flags, a + 1)

\* the documents update_embeddings prepares from the unembedded rows, in id order
RECURSIVE PrepareFrom(_, _, _)
PrepareFrom(flags, a, k) ==
    IF a \notin ArticleIds THEN <<>>
    ELSE LET article == Article(a)
             doc == [id |-> Uuid(k + 1),
                     content |-> article.title \o "\n\n" \o article.summary
                                    \o "\n\n" \o article.content,
                     source |-> article.source \o " (" \o article.published_at \o ")"]
         IN  IF flags[a] = 0
             THEN <<doc>> \o PrepareFrom(flags, a + 1, k + 1)
             ELSE PrepareFrom(flags, a + 1, k)

-----------------------------------------------------------------------------
(* generate_answer: core/chatbot.py *)

Questions == {"hi", "Will BTC recover soon"}

\* externally supplied chat_history values (None is the empty list)
ProvidedHistories == {
    <<>>,
    <<[role |-> "assistant", content |-> "Hello"]>>,
    <<[content |-> "hi"]>> }

Errors == {"timeout"}

NoCall == [kind |-> "none", text |-> ""]

\* what a completion of the LLM backend can do: return text, raise an Exception,
\* or be cancelled (a BaseException such as CancelledError)
Completions(texts) ==
    {[kind |-> "ok", text |-> t] : t \in texts}
        \cup {[kind |-> "raise", text |-> e] : e \in Errors}
        \cup {[kind |-> "cancel", text |-> ""]}

RelevanceTexts == {"0.75", "Score:\n0.74", "high"}
RagAnswers == {"BTC rose [Source: wiki]",
               "I don't have enough information to answer",
               "Sorry, I don't have specific information"}
GeneralAnswers == {"Hello there"}

\* the sequences of at most n distinct elements of S
Arrangements(S, n) ==
    UNION {{f \in [1..k -> S] : \A i, j \in 1..k : i # j => f[i] # f[j]} : k \in 0..n}

\* the source_documents a retrieval can return from the index
Retrievals == Arrangements(index, Min(MaxRetrieved, MAX_SEARCH_RESULTS))

\* variant of Dedup: every retrieved chunk contributes an entry
RECURSIVE DedupKeepAll(_, _)
DedupKeepAll(source_docs, sources) ==
    IF source_docs = <<>> THEN sources
    ELSE DedupKeepAll(Tail(source_docs),
                      Append(sources, [id |-> Head(source_docs).doc_id,
                                       source |-> Head(source_docs).source]))

\* the de-duplication loop of generate_answer
RECURSIVE Dedup(_, _)
Dedup(source_docs, sources) ==
    IF source_docs = <<>> THEN sources
    ELSE LET doc == Head(source_docs)
             seen_doc_ids == {sources[k].id : k \in 1..Len(sources)}
         IN  IF doc.doc_id \notin seen_doc_ids
             THEN Dedup(Tail(source_docs),
                        Append(sources, [id |-> doc.doc_id, source |-> doc.source]))
             ELSE Dedup(Tail(source_docs), sources)

\* variant of is_good_rag_answer: an answer without sources is accepted
IsGoodWithoutSources(sources, answer) ==
    /\ ~Contains(answer, "I don't have enough information")
    /\ ~Contains(answer, "don't have specific information")

is_good_rag_answer(sources, answer) ==
    /\ sources # <<>>
    /\ ~Contains(answer, "I don't have enough information")
    /\ ~Contains(answer, "don't have specific information")

ErrorMessage(e) == "I'm sorry, there was an error processing your request: " \o e

IdleReq ==
    [pc |-> "idle", session_id |-> "", question |-> "", session_history |-> <<>>,
     recent_history |-> <<>>, relevance |-> NoCall, relevance_score |-> 0,
     rag |-> NoCall, source_documents |-> <<>>, general |-> NoCall,
     answer |-> "", sources |-> <<>>]

NoResult == [kind |-> "none", answer |-> "", sources |-> <<>>]

InFlight == {"relevance", "route", "general", "record", "except"}

Init ==
    /\ OPENAI_API_KEY \in BOOLEAN
    /\ session_histories = NoSessions
    /\ documents = <<>>
    /\ index = {}
    /\ embedded = [a \in ArticleIds |-> 0]
    /\ next_id = 0
    /\ req = IdleReq
    /\ result = NoResult
    /\ appended = NoSessions
    /\ loop = [waiting |-> EmptyBag, uploaded |-> <<>>]

-----------------------------------------------------------------------------
(* The chat request: chat of api/routes.py calling generate_answer *)

\* the number of turns appended to the histories now in memory
RECURSIVE SumLen(_, _)
SumLen(lists, keys) ==
    IF keys = {} THEN 0
    ELSE LET k == CHOOSE x \in keys : TRUE
         IN  Len(lists[k]) + SumLen(lists, keys \ {k})

TurnsAppended == SumLen(appended, DOMAIN appended)

\* POST /api/chat up to the first LLM call: validate_openai_key, the session id
\* (the cookie's, or a fresh one), then generate_answer's history handling
ChatWith(question, chat_history, session_id) ==
    IF ~OPENAI_API_KEY
    THEN /\ result' = [kind |-> "http500", answer |-> "", sources |-> <<>>]
         /\ req' = IdleReq
         /\ UNCHANGED <<session_histories, appended>>
    ELSE LET h == get_session_history(session_histories, session_id)
             frame == [IdleReq EXCEPT !.session_id = session_id,
                                      !.question = question,
                                      !.session_history = h[session_id]]
         IN  /\ session_histories' = h
             /\ appended' = get_session_history(appended, session_id)
             /\ IF MergeRaises(chat_history)
                THEN /\ req' = [frame EXCEPT !.pc = "raised"]
                     /\ result' = [kind |-> "http500", answer |-> "",
                                   sources |-> <<>>]
                ELSE /\ req' = [frame EXCEPT
                            !.pc = "relevance",
                            !.recent_history = RecentHistory(
                                merge_histories(h[session_id], chat_history))]
                     /\ result' = NoResult

\* a chat request arrives and its handler starts at once; the handler of an
\* earlier request is not inside generate_answer
Chat(questions, histories, max_turns) ==
    /\ req.pc \notin InFlight
    /\ TurnsAppended < max_turns
    /\ \E question \in questions, chat_history \in histories, session_id \in Sessions :
          ChatWith(question, chat_history, session_id)
    /\ UNCHANGED <<OPENAI_API_KEY, loop, documents, index, embedded, next_id>>

ChatRequest == Chat(Questions, ProvidedHistories, MaxTurns)

\* the score _check_relevance returns for an outcome of the relevance chain
RelevanceScore(out) ==
    CASE out.kind = "none" -> 0
      [] out.kind = "ok" -> ScoreOfResponse(out.text)
      [] OTHER -> 50

\* _check_relevance: the short-circuit, or one call of the relevance chain
CheckRelevance ==
    /\ req.pc = "relevance"
    /\ \E out \in (IF is_common_query(req.question) THEN {NoCall}
                   ELSE Completions(RelevanceTexts)) :
          req' = IF out.kind = "cancel"
                 THEN [req EXCEPT !.pc = "cancelled", !.relevance = out]
                 ELSE [req EXCEPT !.pc = "route", !.relevance = out,
                                  !.relevance_score = RelevanceScore(out)]
    /\ UNCHANGED <<OPENAI_API_KEY, loop, session_histories, documents, index, embedded,
                   next_id, result, appended>>

\* variant of needs_rag: a score equal to the threshold is not enough
NeedsRagAbove(relevance_score) == relevance_score > relevance_threshold

needs_rag(relevance_score) == relevance_score >= relevance_threshold

\* variant of have_documents: the vector store is asked instead of the registry
HaveIndexedChunks == index # {}

have_documents == Len(documents) > 0

\* the frame after the RAG chain answered with (answer, source_docs)
Grounded(frame, out, source_docs) ==
    LET sources == Dedup(source_docs, <<>>)
    IN  [frame EXCEPT !.rag = out, !.source_documents = source_docs,
                      !.answer = out.text, !.sources = sources,
                      !.pc = IF is_good_rag_answer(sources, out.text)
                             THEN "record" ELSE "general"]

\* the routing decision and, when it says so, the call of the RAG chain
Ground ==
    /\ req.pc = "route"
    /\ IF needs_rag(req.relevance_score) /\ have_documents
       THEN \E out \in Completions(RagAnswers) :
            \E source_docs \in (IF out.kind = "ok" THEN Retrievals ELSE {<<>>}) :
               req' = CASE out.kind = "cancel" ->
                            [req EXCEPT !.pc = "cancelled", !.rag = out]
                        [] out.kind = "raise" ->
                            [req EXCEPT !.pc = "except", !.rag = out]
                        [] OTHER -> Grounded(req, out, source_docs)
       ELSE req' = [req EXCEPT !.pc = "general"]
    /\ UNCHANGED <<OPENAI_API_KEY, loop, session_histories, documents, index, embedded,
                   next_id, result, appended>>

\* variant of GeneralSources: the sources of the rejected answer are kept
GeneralSourcesKept(sources) == sources

\* the sources generate_answer keeps once the general chain has answered
GeneralSources(sources) == <<>>

\* the call of the general chain
General ==
    /\ req.pc = "general"
    /\ \E out \in Completions(GeneralAnswers) :
          req' = CASE out.kind = "cancel" ->
                       [req EXCEPT !.pc = "cancelled", !.general = out]
                   [] out.kind = "raise" ->
                       [req EXCEPT !.pc = "except", !.general = out]
                   [] OTHER ->
                       [req EXCEPT !.pc = "record", !.general = out,
                                   !.answer = out.text,
                                   !.sources = GeneralSources(req.sources)]
    /\ UNCHANGED <<OPENAI_API_KEY, loop, session_histories, documents, index, embedded,
                   next_id, result, appended>>

\* the end of the try block: update_session_history, return answer, sources
Record ==
    /\ req.pc = "record"
    /\ session_histories' = update_session_history(
            session_histories, req.session_id, req.question, req.answer)
    /\ appended' = [appended EXCEPT ![req.session_id] =
                        Append(@, <<req.question, req.answer>>)]
    /\ result' = [kind |-> "ok", answer |-> req.answer, sources |-> req.sources]
    /\ req' = [req EXCEPT !.pc = "done"]
    /\ UNCHANGED <<OPENAI_API_KEY, loop, documents, index, embedded, next_id>>

\* the exception the handler of generate_answer caught
Raised(frame) == IF frame.rag.kind = "raise" THEN frame.rag.text ELSE frame.general.text

\* variant of ExceptSources: the sources collected before the failure are returned
ExceptSourcesKept(sources) == sources

\* the sources the handler returns
ExceptSources(sources) == <<>>

\* the except block: the error message is recorded and returned
Except ==
    /\ req.pc = "except"
    /\ LET error_message == ErrorMessage(Raised(req))
       IN  /\ session_histories' = update_session_history(
                   session_histories, req.session_id, req.question, error_message)
           /\ appended' = [appended EXCEPT ![req.session_id] =
                               Append(@, <<req.question, error_message>>)]
           /\ result' = [kind |-> "ok", answer |-> error_message,
                         sources |-> ExceptSources(req.sources)]
           /\ req' = [req EXCEPT !.pc = "done", !.answer = error_message]
    /\ UNCHANGED <<OPENAI_API_KEY, loop, documents, index, embedded, next_id>>

-----------------------------------------------------------------------------
(* The session routes of api/routes.py *)

\* GET /api/session with a session cookie
GetSessionInfo ==
    /\ req.pc \notin InFlight
    /\ \E session_id \in Sessions :
          /\ session_histories' = get_session_history(session_histories, session_id)
          /\ appended' = get_session_history(appended, session_id)
    /\ req' = IdleReq
    /\ result' = NoResult
    /\ UNCHANGED <<OPENAI_API_KEY, loop, documents, index, embedded, next_id>>

\* variant of clear_session: every session of the map is emptied
ClearEverySession(histories, session_id) ==
    [s \in DOMAIN histories |-> <<>>]

\* variant of clear_session: only the newest turn is removed
ClearNewestTurn(histories, session_id) ==
    IF session_id \in DOMAIN histories /\ histories[session_id] # <<>>
    THEN [histories EXCEPT ![session_id] =
              SubSeq(histories[session_id], 1, Len(histories[session_id]) - 1)]
    ELSE histories

\* what clear_session does to the map of histories: a known session gets the
\* empty list, an unknown one gets no entry
clear_session(histories, session_id) ==
    IF session_id \in DOMAIN histories
    THEN [histories EXCEPT ![session_id] = <<>>]
    ELSE histories

\* the response of clear_session
Cleared == [kind |-> "cleared", answer |-> "Session cleared successfully",
            sources |-> <<>>]

\* DELETE /api/session with a session cookie
ClearSession ==
    /\ req.pc \notin InFlight
    /\ \E session_id \in Sessions :
          /\ session_histories' = clear_session(session_histories, session_id)
          /\ appended' = clear_session(appended, session_id)
    /\ req' = IdleReq
    /\ result' = Cleared
    /\ UNCHANGED <<OPENAI_API_KEY, loop, documents, index, embedded, next_id>>

-----------------------------------------------------------------------------
(* Documents: core/document_manager.py, integration_manager.py, app.py *)

AddOutcomes == {"ok", "upsert_raises", "save_raises"}

\* add_document and bulk_add_documents after the loop: new_docs are appended to
\* the registry, their chunks go to the vector store, the registry is saved; an
\* exception of either step rolls the registry back
AddToStore(new_docs, outcome) ==
    LET ids == DocIds(new_docs)
        chunks == UNION {ChunksOf(new_docs[i]) : i \in 1..Len(new_docs)}
    IN  /\ documents' = IF outcome = "ok" THEN documents \o new_docs
                        ELSE WithoutIds(documents \o new_docs, ids)
        /\ index' = IF outcome = "upsert_raises" THEN index ELSE index \cup chunks
        /\ next_id' = next_id + Len(new_docs)

\* POST /upload: add_document(content, source)
UploadDocument ==
    /\ req.pc \notin InFlight
    /\ next_id < Cardinality(Uuids)
    /\ \E upload \in Uploads, outcome \in AddOutcomes :
          AddToStore(<<[id |-> Uuid(next_id + 1), content |-> upload[1],
                        source |-> upload[2]]>>, outcome)
    /\ req' = IdleReq
    /\ result' = NoResult
    /\ UNCHANGED <<OPENAI_API_KEY, loop, session_histories, embedded, appended>>

Unembedded == {a \in ArticleIds : embedded[a] = 0}

\* update_embeddings(standalone_mode=True), as the crawler job runs it: the
\* rows are marked and nothing is added to the vector store
CronUpdateEmbeddings ==
    /\ Unembedded # {}
    /\ embedded' = [a \in ArticleIds |-> 1]
    /\ UNCHANGED <<OPENAI_API_KEY, loop, session_histories, documents, index, next_id,
                   req, result, appended>>

\* update_embeddings() inside the application
UpdateEmbeddings ==
    /\ req.pc \notin InFlight
    /\ Unembedded # {}
    /\ next_id + Cardinality(Unembedded) <= Cardinality(Uuids)
    /\ \E outcome \in AddOutcomes :
          /\ AddToStore(PrepareFrom(embedded, 1, next_id), outcome)
          /\ embedded' = IF outcome = "ok" THEN [a \in ArticleIds |-> 1] ELSE embedded
    /\ req' = IdleReq
    /\ result' = NoResult
    /\ UNCHANGED <<OPENAI_API_KEY, loop, session_histories, appended>>

\* the process starts again (lifespan of app.py): the chatbot and the document
\* manager are built anew, the Qdrant storage on disk is kept unless its
\* initialization fails and it is reset
Restart ==
    /\ \E qdrant_ok \in BOOLEAN : index' = IF qdrant_ok THEN index ELSE {}
    /\ documents' = LoadFrom(embedded, 1)
    /\ session_histories' = NoSessions
    /\ appended' = NoSessions
    /\ req' = IdleReq
    /\ result' = NoResult
    /\ UNCHANGED <<OPENAI_API_KEY, loop, embedded, next_id>>

-----------------------------------------------------------------------------

Next ==
    \/ ChatRequest
    \/ CheckRelevance
    \/ Ground
    \/ General
    \/ Record
    \/ Except
    \/ GetSessionInfo
    \/ ClearSession
    \/ UploadDocument
    \/ CronUpdateEmbeddings
    \/ UpdateEmbeddings
    \/ Restart

Spec == Init /\ [][Next]_vars

\* The application with its scheduling: a handler that has started runs to its
\* end on the event loop, and the crawler job runs again and again; requests,
\* uploads and restarts come when the outside world sends them
Fairness ==
    /\ []<>(req.pc \notin InFlight)
    /\ WF_vars(CronUpdateEmbeddings)

SpecLive == Spec /\ Fairness

\* The session manager alone: chat requests with one question and no supplied
\* history against an empty registry, and the session routes
SessionChat == Chat({"hi"}, {<<>>}, MaxSessionTurns)

SessionNext ==
    \/ SessionChat
    \/ CheckRelevance
    \/ Ground
    \/ General
    \/ Record
    \/ Except
    \/ GetSessionInfo
    \/ ClearSession

SpecSession == Init /\ [][SessionNext]_vars

-----------------------------------------------------------------------------
(* The Document Store alone: add_document, bulk_add_documents,
   delete_document and sync_documents of core/document_manager.py called
   directly, the value each call gives its caller kept in result together with
   the registry it found; the crawler job marks articles and the process
   restarts, with or without a reset of the Qdrant storage *)

\* (content, source) of the documents handed to the Document Store
DocInputs == Uploads \cup {<<"ETH fell", "blog">>}

\* the batches handed to bulk_add_documents
Batches == UNION {[1..n -> DocInputs] : n \in 0..MaxBatch}

\* new_doc of the i-th input of a batch when k ids were handed out before
NewDocs(batch, k) ==
    [i \in 1..Len(batch) |->
        [id |-> Uuid(k + i), content |-> batch[i][1], source |-> batch[i][2]]]

AddDocument ==
    /\ req.pc \notin InFlight
    /\ next_id < MaxAdded
    /\ \E input \in DocInputs, outcome \in AddOutcomes :
          LET new_docs == NewDocs(<<input>>, next_id)
          IN  /\ AddToStore(new_docs, outcome)
              /\ result' = [kind |-> "add_document", outcome |-> outcome,
                            raised |-> outcome # "ok",
                            returned |-> IF outcome = "ok" THEN new_docs[1].id ELSE <<>>,
                            before |-> documents, inputs |-> <<input>>]
    /\ UNCHANGED <<OPENAI_API_KEY, loop, session_histories, embedded, req, appended>>

BulkAddDocuments ==
    /\ req.pc \notin InFlight
    /\ \E batch \in Batches, outcome \in AddOutcomes :
          /\ next_id + Len(batch) <= MaxAdded
          /\ IF batch = <<>>
             THEN /\ outcome = "ok"
                  /\ UNCHANGED <<documents, index, next_id>>
                  /\ result' = [kind |-> "bulk_add_documents", outcome |-> outcome,
                                raised |-> FALSE, returned |-> <<>>,
                                before |-> documents, inputs |-> batch]
             ELSE LET new_docs == NewDocs(batch, next_id)
                  IN  /\ AddToStore(new_docs, outcome)
                      /\ result' = [kind |-> "bulk_add_documents", outcome |-> outcome,
                                    raised |-> outcome # "ok",
                                    returned |-> IF outcome = "ok"
                                                 THEN [i \in 1..Len(batch) |-> new_docs[i].id]
                                                 ELSE <<>>,
                                    before |-> documents, inputs |-> batch]
    /\ UNCHANGED <<OPENAI_API_KEY, loop, session_histories, embedded, req, appended>>

\* the payload the Langchain Qdrant wrapper stores for a chunk: the text under
\* "page_content", its metadata under "metadata" (as search_documents reads it)
Payload(chunk) ==
    [page_content |-> chunk.page_content,
     metadata |-> [source |-> chunk.source, doc_id |-> chunk.doc_id,
                   chunk_id |-> chunk.chunk_id]]

\* FieldCondition(key, MatchValue(value)): the payload has the field key with
\* the value
Matches(payload, key, value) == key \in DOMAIN payload /\ payload[key] = value

\* the points the collection keeps when delete_by_metadata does not raise
delete_by_metadata(points, metadata_key, metadata_value) ==
    {chunk \in points : ~Matches(Payload(chunk), metadata_key, metadata_value)}

\* the ids a caller may ask delete_document to delete
DeletableIds == {Uuid(k) : k \in 1..(MaxAdded + 1)}

DeleteOutcomes == {"ok", "delete_raises", "save_raises"}

\* self.documents.pop(doc_index), doc_index the first position with the id
RECURSIVE Pop(_, _)
Pop(registry, doc_id) ==
    IF registry = <<>> THEN <<>>
    ELSE IF Head(registry).id = doc_id THEN Tail(registry)
    ELSE <<Head(registry)>> \o Pop(Tail(registry), doc_id)

\* variant of RegistryAfterDelete: the document is removed whatever the chunk
\* deletion reported
RegistryAlwaysPopped(registry, doc_id, deleted) == Pop(registry, doc_id)

\* the registry delete_document leaves for a known id
RegistryAfterDelete(registry, doc_id, deleted) ==
    IF deleted THEN Pop(registry, doc_id) ELSE registry

DeleteDocument ==
    /\ req.pc \notin InFlight
    /\ \E doc_id \in DeletableIds, outcome \in DeleteOutcomes :
          IF doc_id \notin DocIds(documents)
          THEN /\ outcome = "ok"
               /\ UNCHANGED <<documents, index>>
               /\ result' = [kind |-> "delete_document", outcome |-> outcome,
                             raised |-> FALSE, returned |-> FALSE,
                             before |-> documents, index_before |-> index,
                             doc_id |-> doc_id]
          ELSE LET deleted == outcome # "delete_raises"
               IN  /\ index' = IF deleted
                               THEN delete_by_metadata(index, "doc_id", doc_id)
                               ELSE index
                   /\ documents' = RegistryAfterDelete(documents, doc_id, deleted)
                   /\ result' = [kind |-> "delete_document", outcome |-> outcome,
                                 raised |-> outcome = "save_raises",
                                 returned |-> outcome = "ok",
                                 before |-> documents, index_before |-> index,
                                 doc_id |-> doc_id]
    /\ UNCHANGED <<OPENAI_API_KEY, loop, session_histories, embedded, next_id, req, appended>>

SyncOutcomes == {"ok", "count_raises", "upsert_raises"}

\* count_vectors(): the number of points, 0 when the client raises
count_vectors(points, outcome) ==
    IF outcome = "count_raises" THEN 0 ELSE Cardinality(points)

\* sync_documents(): when the vector store counts 0 points and the registry is
\* not empty every document is split again and the chunks are added in one
\* batch; an exception of that batch is logged and not raised
SyncDocuments ==
    /\ req.pc \notin InFlight
    /\ \E outcome \in SyncOutcomes :
          LET doc_count == count_vectors(index, outcome)
              all_langchain_docs ==
                  UNION {ChunksOf(documents[i]) : i \in 1..Len(documents)}
          IN  /\ index' = IF doc_count = 0 /\ documents # <<>>
                                /\ outcome # "upsert_raises"
                           THEN index \cup all_langchain_docs
                           ELSE index
              /\ result' = [kind |-> "sync_documents", outcome |-> outcome,
                            raised |-> FALSE, before |-> documents,
                            index_before |-> index]
    /\ UNCHANGED <<OPENAI_API_KEY, loop, session_histories, documents, embedded,
                   next_id, req, appended>>

DocsNext ==
    \/ AddDocument
    \/ BulkAddDocuments
    \/ DeleteDocument
    \/ SyncDocuments
    \/ CronUpdateEmbeddings
    \/ Restart

SpecDocs == Init /\ [][DocsNext]_vars

-----------------------------------------------------------------------------
(* _merge_histories alone: the function applied to stored histories and
   supplied message lists, its arguments and values kept in result *)

\* turns a stored history can hold: (question, answer)
StoredTurns == {<<"a", "x">>, <<"b", "y">>, <<"", "x">>}

StoredHistories == UNION {[1..n -> StoredTurns] : n \in 0..MaxStored}

\* messages of a supplied chat_history
Messages == {[role |-> "user", content |-> "a"],
             [role |-> "assistant", content |-> "x"],
             [role |-> "user", content |-> ""],
             [role |-> "user", content |-> "b"]}

ProvidedLists == UNION {[1..n -> Messages] : n \in 0..MaxProvided}

\* lines 273-280 of generate_answer on a stored and a supplied history, applied
\* once to each pair of arguments
MergeHistories ==
    /\ result = NoResult
    /\ \E session_history \in StoredHistories, provided_history \in ProvidedLists :
          /\ ~MergeRaises(provided_history)
          /\ result' =
                [kind |-> "merge_histories",
                 session_history |-> session_history,
                 provided_history |-> provided_history,
                 formatted |-> FormatFrom(provided_history, 1),
                 merged |-> merge_histories(session_history, provided_history),
                 recent |-> RecentHistory(
                                merge_histories(session_history, provided_history))]
    /\ UNCHANGED <<OPENAI_API_KEY, loop, session_histories, documents, index, embedded,
                   next_id, req, appended>>

SpecMerge == Init /\ [][MergeHistories]_vars

-----------------------------------------------------------------------------
(* _check_relevance alone: the function applied to questions and to outcomes
   of the relevance chain, its arguments and value kept in result *)

\* a completion of the relevance chain is prefix, line, suffix put together
ScorePrefixes == {"", "blah\n", "0.2\n\n", "  "}

ScoreLines == {"0.73", "1.4", "-0.2", "0", "1", "0.75", ".5", "1.", "+0.25",
               "inf", "-inf", "nan", "high", "0.7.1", "7 5", "0,5", ""}

ScoreSuffixes == {"", "\n", " \n\n"}

ScoreInputs == {[prefix |-> a, line |-> b, suffix |-> c] :
                   a \in ScorePrefixes, b \in ScoreLines, c \in ScoreSuffixes}

\* the questions _check_relevance is applied to: filler phrases as they are
\* and in another case, questions of 0, 1 and 2 words, and longer questions,
\* one of which has the filler phrase "hi" inside the word "this"
ScoreQuestions == {"hi", "  Thank You ", "What Can You Do", "what can you do",
                   "BTC price", "", "Will BTC recover soon",
                   "Is this a good time to buy"}

\* _check_relevance applied once to a question and an outcome of the chain
CheckRelevanceOnce ==
    /\ result = NoResult
    /\ \E question \in ScoreQuestions :
          IF is_common_query(question)
          THEN result' = [kind |-> "check_relevance", question |-> question,
                          called |-> FALSE, completion |-> NoCall,
                          input |-> [prefix |-> "", line |-> "", suffix |-> ""],
                          raised |-> FALSE, score |-> RelevanceScore(NoCall)]
          ELSE \/ \E input \in ScoreInputs :
                     LET out == [kind |-> "ok",
                                 text |-> input.prefix \o input.line \o input.suffix]
                     IN  result' = [kind |-> "check_relevance", question |-> question,
                                    called |-> TRUE, completion |-> out,
                                    input |-> input,
                                    raised |-> FALSE, score |-> RelevanceScore(out)]
               \/ \E e \in Errors :
                     LET out == [kind |-> "raise", text |-> e]
                     IN  result' = [kind |-> "check_relevance", question |-> question,
                                    called |-> TRUE, completion |-> out,
                                    input |-> [prefix |-> "", line |-> "", suffix |-> ""],
                                    raised |-> FALSE, score |-> RelevanceScore(out)]
    /\ UNCHANGED <<OPENAI_API_KEY, loop, session_histories, documents, index, embedded,
                   next_id, req, appended>>

SpecRelevance == Init /\ [][CheckRelevanceOnce]_vars

-----------------------------------------------------------------------------
(* The event loop: requests arrive at any time, also while a handler is inside
   generate_answer, and wait until the loop takes them. The handlers are
   coroutines without a suspension point (the chains and the vector store are
   called synchronously), so the loop runs one handler at a time from its
   first statement to its last *)

MaxWaiting == 2       \* requests waiting for the event loop
MaxLoopTurns == 2     \* turns appended to the histories in SpecLoop
MaxLoopUploads == 2   \* documents uploaded in SpecLoop

\* the questions of the chat requests: greetings, answered by the general chain
LoopQuestions == {"hi", "hey"}

\* the session whose cookie the chat requests carry
LoopSessions == {"s1"}

\* the requests clients send: POST /api/chat with a session cookie and
\* POST /upload
LoopRequests ==
    {[op |-> "chat", session_id |-> s, question |-> q, upload |-> <<>>] :
        s \in LoopSessions, q \in LoopQuestions}
    \cup {[op |-> "upload", session_id |-> "", question |-> "", upload |-> u] :
             u \in Uploads}

\* a client sends a request; it waits for the event loop
Submit ==
    /\ BagCardinality(loop.waiting) < MaxWaiting
    /\ \E r \in LoopRequests :
          loop' = [loop EXCEPT !.waiting = @ (+) SetToBag({r})]
    /\ UNCHANGED <<OPENAI_API_KEY, session_histories, documents, index, embedded,
                   next_id, req, result, appended>>

\* the event loop is not inside a handler
LoopFree == req.pc \notin InFlight

\* the event loop starts the handler of a waiting chat request
ServeChat ==
    /\ LoopFree
    /\ TurnsAppended < MaxLoopTurns
    /\ \E r \in BagToSet(loop.waiting) :
          /\ r.op = "chat"
          /\ ChatWith(r.question, <<>>, r.session_id)
          /\ loop' = [loop EXCEPT !.waiting = @ (-) SetToBag({r})]
    /\ UNCHANGED <<OPENAI_API_KEY, documents, index, embedded, next_id>>

\* the event loop runs the handler of a waiting upload: add_document, and the
\* page with the id of the document or with the error
ServeUpload ==
    /\ LoopFree
    /\ next_id < MaxLoopUploads
    /\ \E r \in BagToSet(loop.waiting), outcome \in AddOutcomes :
          LET doc_id == Uuid(next_id + 1)
          IN  /\ r.op = "upload"
              /\ AddToStore(<<[id |-> doc_id, content |-> r.upload[1],
                                source |-> r.upload[2]]>>, outcome)
              /\ loop' = [waiting |-> loop.waiting (-) SetToBag({r}),
                          uploaded |-> Append(loop.uploaded,
                              [doc_id |-> doc_id, error |-> outcome # "ok"])]
    /\ req' = IdleReq
    /\ result' = NoResult
    /\ UNCHANGED <<OPENAI_API_KEY, session_histories, embedded, appended>>

LoopNext ==
    \/ Submit
    \/ ServeChat
    \/ CheckRelevance
    \/ Ground
    \/ General
    \/ Record
    \/ Except
    \/ ServeUpload

SpecLoop == Init /\ [][LoopNext]_vars

-----------------------------------------------------------------------------
(* Properties *)

\* the turns of a session's history, none for a session the map does not hold
Turns(session_id) ==
    IF session_id \in DOMAIN session_histories THEN session_histories[session_id]
    ELSE <<>>

\* the doc_ids of the chunks the RAG chain returned to the current request
RetrievedIds == {req.source_documents[i].doc_id : i \in 1..Len(req.source_documents)}

\* the position of the first retrieved chunk of a document
FirstPos(doc_id) == CHOOSE i \in 1..Len(req.source_documents) :
    /\ req.source_documents[i].doc_id = doc_id
    /\ \A j \in 1..(i - 1) : req.source_documents[j].doc_id # doc_id

HasMarker(answer) ==
    \/ Contains(answer, "I don't have enough information")
    \/ Contains(answer, "don't have specific information")

LlmRaised == req.rag.kind = "raise" \/ req.general.kind = "raise"

RaisedText == IF req.rag.kind = "raise" THEN req.rag.text ELSE req.general.text

\* C1: when the RAG chain or the general chain raises, generate_answer does not
\* raise: it ends normally, the caller gets (error_text, []) where error_text
\* reports the error, and the session's history is the history the call found
\* with the one turn (question, error_text) appended, cut to its window.
C1_LlmFailureIsAnswered ==
    LlmRaised =>
        /\ req.pc \in {"except", "done"}
        /\ req.pc = "done" =>
              /\ result.kind = "ok"
              /\ result.answer =
                    "I'm sorry, there was an error processing your request: "
                        \o RaisedText
              /\ result.sources = <<>>
              /\ Turns(req.session_id) =
                    LastN(Append(req.session_history,
                                 <<req.question, result.answer>>), 5)

\* a grounded answer with sources was rejected, then the general chain raised
C1_Witness ==
    /\ req.pc = "done"
    /\ req.rag.kind = "ok" /\ req.sources # <<>>
    /\ req.general.kind = "raise"

\* C2: a chat request that entered generate_answer never ends in an exception
\* or an HTTP 500, whatever chat_history was supplied.
C2_ChatNeverHardError ==
    ~(req.pc = "raised" /\ result.kind = "http500")

\* C3: an answer of the general chain is returned with no sources, and sources
\* are returned only with the answer of the RAG chain, accepted.
C3_GeneralAnswerHasNoSources ==
    req.pc = "done" =>
        /\ req.general.kind = "ok" => result.sources = <<>>
        /\ result.sources # <<>> =>
              /\ req.rag.kind = "ok" /\ req.general.kind = "none"
              /\ result.answer = req.rag.text
              /\ ~HasMarker(result.answer)

\* the general chain answered after a grounded answer with sources was rejected
C3_Witness ==
    /\ req.pc = "done"
    /\ req.rag.kind = "ok" /\ RetrievedIds # {}
    /\ req.general.kind = "ok"

\* C4: with an empty registry a request never calls the RAG chain, whatever the
\* question and its relevance score: it calls the general chain and returns no
\* sources.
C4_NoDocumentsNoRetrieval ==
    (req.pc \in InFlight \cup {"done", "cancelled"} /\ Len(documents) = 0) =>
        /\ req.rag.kind = "none"
        /\ req.pc \in {"record", "except", "done"} => req.general.kind # "none"
        /\ req.pc = "done" => result.sources = <<>>

\* a question scored above the threshold, answered with an empty registry while
\* the vector index holds chunks
C4_Witness ==
    /\ req.pc = "done"
    /\ Len(documents) = 0 /\ index # {}
    /\ req.relevance_score >= 75
    /\ req.general.kind = "ok"

\* C5: once the RAG chain has answered, its answer is returned iff at least one
\* chunk was retrieved and the answer holds no marker phrase; otherwise the
\* general chain is called, and its answer, when it gives one, is returned
\* without sources.
C5_GroundedAcceptedIff ==
    (req.pc = "done" /\ req.rag.kind = "ok") =>
        IF RetrievedIds # {} /\ ~HasMarker(req.rag.text)
        THEN /\ req.general.kind = "none"
             /\ result.answer = req.rag.text
        ELSE /\ req.general.kind \in {"ok", "raise"}
             /\ req.general.kind = "ok" =>
                   /\ result.answer = req.general.text
                   /\ result.sources = <<>>

\* the retrieval returned no chunk, the answer had no marker, the general chain
\* answered
C5_Witness ==
    /\ req.pc = "done"
    /\ req.rag.kind = "ok" /\ req.source_documents = <<>> /\ ~HasMarker(req.rag.text)
    /\ req.general.kind = "ok"

\* C6: the returned sources name no doc_id twice; with an accepted grounded
\* answer there is one entry per doc_id among the retrieved chunks, made from
\* the first chunk of that doc_id, the entries in the order of those chunks.
C6_SourcesDeduplicated ==
    req.pc = "done" =>
        /\ \A i, j \in 1..Len(result.sources) :
              i # j => result.sources[i].id # result.sources[j].id
        /\ (req.rag.kind = "ok" /\ req.general.kind = "none") =>
              /\ Len(result.sources) = Cardinality(RetrievedIds)
              /\ \A i \in 1..Len(result.sources) :
                    /\ result.sources[i].id \in RetrievedIds
                    /\ result.sources[i].source =
                          req.source_documents[FirstPos(result.sources[i].id)].source
              /\ \A i, j \in 1..Len(result.sources) :
                    i < j => FirstPos(result.sources[i].id) < FirstPos(result.sources[j].id)

\* three chunks retrieved, two of one document and one of another
C6_Witness ==
    /\ req.pc = "done"
    /\ req.rag.kind = "ok" /\ req.general.kind = "none"
    /\ Len(req.source_documents) = 3
    /\ Len(result.sources) = 2

\* C7: every returned source has the id and the source of a document that is in
\* the registry.
C7_SourcesAreRegistryDocuments ==
    req.pc = "done" =>
        \A i \in 1..Len(result.sources) :
            \E k \in 1..Len(documents) :
                /\ documents[k].id = result.sources[i].id
                /\ documents[k].source = result.sources[i].source

\* C8: every stored session history holds at most 5 turns.
C8_HistoryCapped ==
    \A s \in DOMAIN session_histories : Len(session_histories[s]) <= 5

\* a session whose history is full after more than 5 turns were appended
C8_Witness ==
    \E s \in DOMAIN session_histories :
        Len(session_histories[s]) = 5 /\ Len(appended[s]) > 5

\* C9: after n appends to an empty history the history is the last min(n, 5)
\* appended turns, in the order they were appended.
C9_FifoEviction ==
    \A s \in DOMAIN session_histories :
        LET n == Len(appended[s])
            m == IF n < 5 THEN n ELSE 5
        IN  /\ Len(session_histories[s]) = m
            /\ \A i \in 1..m : session_histories[s][i] = appended[s][n - m + i]

\* seven turns were appended, and the oldest differs from the oldest one kept
C9_Witness ==
    \E s \in DOMAIN session_histories :
        /\ Len(appended[s]) = 7
        /\ appended[s][1] # appended[s][3]

\* C10: while a request is in flight, and when it is abandoned or has raised,
\* the session's history is the one the request found; when it completes, exactly the turn
\* (question, answer returned) has been appended.
C10_HistoryWrittenAtCompletion ==
    /\ req.pc \in InFlight \cup {"cancelled", "raised"} =>
          Turns(req.session_id) = req.session_history
    /\ req.pc = "done" =>
          /\ result.kind = "ok"
          /\ Turns(req.session_id) =
                LastN(Append(req.session_history, <<req.question, result.answer>>), 5)

\* a request abandoned in the general chain, after the RAG chain had answered
C10_Witness ==
    /\ req.pc = "cancelled"
    /\ req.rag.kind = "ok"
    /\ req.general.kind = "cancel"

\* C11: for every session id, seen before or not, clearing twice leaves the map
\* of histories that clearing once leaves, and the history read after either
\* call is empty.
C11_ClearSessionIdempotent ==
    \A sid \in Sessions :
        LET once == clear_session(session_histories, sid)
            twice == clear_session(once, sid)
        IN  /\ twice = once
            /\ get_session_history(once, sid)[sid] = <<>>
            /\ get_session_history(twice, sid)[sid] = <<>>

\* a session was cleared while another one holds turns, and a further clear of
\* a session that holds turns is possible
C11_Witness ==
    /\ result = Cleared
    /\ \E s \in DOMAIN session_histories : session_histories[s] = <<>>
    /\ \E s \in DOMAIN session_histories : Len(session_histories[s]) >= 2

\* C12: when the upsert of add_document fails, the call raises and the registry
\* is the registry the call found, without the new document.
C12_AddRollsBack ==
    (result.kind = "add_document" /\ result.outcome = "upsert_raises") =>
        /\ result.raised
        /\ documents = result.before
        /\ Uuid(next_id) \notin DocIds(documents)

\* an upsert failed while the registry already held a document
C12_Witness ==
    /\ result.kind = "add_document" /\ result.outcome = "upsert_raises"
    /\ Len(result.before) >= 1

C15_DeleteCascades ==
    (result.kind = "delete_document" /\ result.returned = TRUE) =>
        \A chunk \in index : chunk.doc_id # result.doc_id

\* the elements of lst at the positions K, in the order of lst
SubAt(lst, K) ==
    [i \in 1..Cardinality(K) |->
        lst[CHOOSE k \in K : Cardinality({j \in K : j <= k}) = i]]

\* the positions of lst that hold a pair for the first time
FirstSeen(lst) == {i \in 1..Len(lst) : \A j \in 1..(i - 1) : lst[j] # lst[i]}

\* the positions of lst that hold a pair with a user message
WithUser(lst) == {i \in 1..Len(lst) : lst[i][1] # ""}

\* C16 as stated: merging a stored history with an empty supplied history and
\* cutting to 5 returns the turns of the stored history, cut to the most
\* recent 5, in unchanged order.
C16_MergeEmptyIsNoOp ==
    (result.kind = "merge_histories" /\ result.provided_history = <<>>) =>
        result.recent = LastN(result.session_history, 5)

\* C16, amended: merging a stored history with an empty supplied history and
\* cutting to 5 returns the turns of the stored history that have a user
\* message and repeat no earlier turn, in unchanged order, cut to the most
\* recent 5.
C16_MergeEmptyKeepsFirstTurns ==
    (result.kind = "merge_histories" /\ result.provided_history = <<>>) =>
        LET h == result.session_history
        IN  result.recent = LastN(SubAt(h, FirstSeen(h) \cap WithUser(h)), 5)

\* a stored history that holds the same turn twice, merged with nothing
C16_Witness ==
    /\ result.kind = "merge_histories" /\ result.provided_history = <<>>
    /\ Len(result.session_history) = 2
    /\ result.session_history[1] = result.session_history[2]
    /\ result.session_history[1][1] # ""

\* C17 as stated: the merged list is the stored history followed by the
\* regrouped supplied history, with every later occurrence of a pair dropped.
C17_MergeDropsLaterDuplicates ==
    result.kind = "merge_histories" =>
        LET cat == result.session_history \o result.formatted
        IN  result.merged = SubAt(cat, FirstSeen(cat))

\* C17, amended: the merged list is the stored history followed by the
\* regrouped supplied history, with every pair without a user message and every
\* later occurrence of a pair dropped; it holds no pair twice.
C17_MergeDropsDuplicatesAndEmpty ==
    result.kind = "merge_histories" =>
        LET cat == result.session_history \o result.formatted
        IN  /\ result.merged = SubAt(cat, FirstSeen(cat) \cap WithUser(cat))
            /\ \A i, j \in 1..Len(result.merged) :
                  i # j => result.merged[i] # result.merged[j]

\* a pair is in both inputs, and the supplied history has a user message that
\* is empty
C17_Witness ==
    /\ result.kind = "merge_histories"
    /\ \E i \in 1..Len(result.session_history), j \in 1..Len(result.formatted) :
          /\ result.session_history[i] = result.formatted[j]
          /\ result.formatted[j][1] # ""
    /\ \E k \in 1..Len(result.formatted) : result.formatted[k][1] = ""
    /\ Len(result.merged) >= 2

\* the positions of the "user" messages of a supplied list
UserPositions(lst) == {i \in 1..Len(lst) : lst[i].role = "user"}

\* C18: regrouping yields one pair per "user" message, in list order, whose
\* assistant side is the content of the message right after that user message
\* when that message has role "assistant", and "" otherwise.
C18_RegroupPairsWithNext ==
    result.kind = "merge_histories" =>
        LET lst == result.provided_history
            users == SubAt([i \in 1..Len(lst) |-> i], UserPositions(lst))
        IN  /\ Len(result.formatted) = Len(users)
            /\ \A n \in 1..Len(users) :
                  LET i == users[n]
                  IN  result.formatted[n] =
                         <<lst[i].content,
                           IF i + 1 <= Len(lst) /\ lst[i + 1].role = "assistant"
                           THEN lst[i + 1].content ELSE "">>

\* the request has passed the choice between the RAG chain and the general chain
Routed ==
    \/ req.pc \in {"general", "record", "except", "done"}
    \/ req.pc = "cancelled" /\ req.relevance.kind # "cancel"

\* C19: a request calls the RAG chain if and only if the relevance score of its
\* question is at least 0.75 and the registry is not empty; a request that did
\* not call it is answered by the general chain.
C19_RagIffRelevantAndDocuments ==
    Routed =>
        /\ req.rag.kind # "none" <=> (req.relevance_score >= 75 /\ Len(documents) > 0)
        /\ (req.rag.kind = "none" /\ req.pc \in {"record", "except", "done"}) =>
              req.general.kind \in {"ok", "raise"}

\* a question scored exactly 0.75 was answered by the RAG chain
C19_Witness ==
    /\ req.pc = "done"
    /\ req.relevance_score = 75
    /\ req.rag.kind = "ok" /\ req.general.kind = "none"

\* the number, in hundredths, that a line of a completion stands for: 50 for a
\* line that is no number
LineValue ==
    ("0.73" :> 73) @@ ("1.4" :> 140) @@ ("-0.2" :> -20) @@ ("0" :> 0)
    @@ ("1" :> 100) @@ ("0.75" :> 75) @@ (".5" :> 50) @@ ("1." :> 100)
    @@ ("+0.25" :> 25) @@ ("inf" :> 1000) @@ ("-inf" :> -1000)

\* the last non-empty line of a completion put together from an input
LastNonEmptyLine(input) ==
    IF input.line # "" THEN input.line
    ELSE IF input.prefix = "blah\n" THEN "blah"
    ELSE IF input.prefix = "0.2\n\n" THEN "0.2"
    ELSE ""

FillerPhrases == {common_queries[k] : k \in 1..Len(common_queries)}

\* C21: a question that is one of the fixed filler phrases, or that has at most
\* 2 words, is scored 0.0 and the relevance chain is not called.
C21_ShortCircuit ==
    (/\ result.kind = "check_relevance"
     /\ \/ result.question \in FillerPhrases
        \/ WordCount(result.question) <= 2)
    => /\ ~result.called
       /\ result.completion = NoCall
       /\ result.score = 0

\* a question of two words that is no filler phrase, scored without a call
C21_Witness ==
    /\ result.kind = "check_relevance"
    /\ result.question = "BTC price"
    /\ ~result.called
    /\ result.score = 0

\* C22: every question of more than 2 words that is not itself one of the
\* filler phrases is scored by a call of the relevance chain, whatever words it
\* contains.
C22_LongQuestionsAreScoredByLlm ==
    (/\ result.kind = "check_relevance"
     /\ WordCount(result.question) > 2
     /\ result.question \notin FillerPhrases)
    => result.called

Consistent(registry, points) ==
    /\ \A i \in 1..Len(registry) : ChunksOf(registry[i]) \subseteq points
    /\ \A c \in points : c.doc_id \in DocIds(registry)

\* C30: a call of add_document, bulk_add_documents or delete_document, whether
\* it succeeds or fails at any of its steps, takes a consistent registry and
\* index to a consistent registry and index: no orphan chunks and no document
\* without its chunks.
C30_CallsKeepConsistency ==
    [][(/\ Consistent(documents, index)
        /\ result'.kind \in {"add_document", "bulk_add_documents", "delete_document"}
        /\ result' # result)
       => Consistent(documents', index')]_vars

\* the text update_embeddings makes a document of for a row of the articles table
ArticleText(a) ==
    Article(a).title \o "\n\n" \o Article(a).summary \o "\n\n" \o Article(a).content

\* C25: a step that marks a row of the articles table embedded has added a
\* document with the text of the article to the registry and the chunks of
\* that document to the index, in normal mode and in standalone mode.
C25_MarkedMeansAdded ==
    [][\A a \in ArticleIds :
          (embedded[a] = 0 /\ embedded'[a] = 1)
          => \E i \in 1..Len(documents') :
                /\ documents'[i].content = ArticleText(a)
                /\ documents'[i].id \notin DocIds(documents)
                /\ ChunksOf(documents'[i]) # {}
                /\ ChunksOf(documents'[i]) \subseteq index']_vars

\* C24: whenever the index is empty (wiped by a failed initialization of the
\* Qdrant storage) while the registry holds documents, the application
\* eventually has the chunks of every registered document in the index again.
C24_ResetIsRepaired ==
    (index = {} /\ documents # <<>>)
        ~> (index # {} /\ \A i \in 1..Len(documents) :
                              ChunksOf(documents[i]) \subseteq index)

\* session b has in map after what it has in map before
KeepsSession(before, after, b) ==
    b \in DOMAIN after /\ after[b] = before[b]

\* C29: the history of a session is changed only by operations carrying its
\* session id. From every map of histories the application reaches,
\* get_session_history, update_session_history and clear_session for a session
\* a leave every other session b of the map as it is; a step of generate_answer
\* changes at most the history of the session of its request, every step
\* changes at most one history, and no step removes a session from the map.
C29_SessionFrame ==
    [][/\ \A a \in Sessions : \A b \in DOMAIN session_histories \ {a} :
             /\ KeepsSession(session_histories,
                     get_session_history(session_histories, a), b)
             /\ KeepsSession(session_histories,
                     update_session_history(session_histories, a, "q", "x"), b)
             /\ KeepsSession(session_histories,
                     clear_session(session_histories, a), b)
       /\ DOMAIN session_histories \subseteq DOMAIN session_histories'
       /\ \A b \in DOMAIN session_histories :
             session_histories'[b] # session_histories[b]
             => /\ req.pc \in InFlight => b = req.session_id
                /\ \A c \in DOMAIN session_histories \ {b} :
                      session_histories'[c] = session_histories[c]]_vars

\* a request of one session has been answered and recorded while another
\* session holds two turns
C29_Witness ==
    /\ req.pc = "done"
    /\ req.session_id \in DOMAIN session_histories
    /\ Len(session_histories[req.session_id]) = 1
    /\ \E b \in DOMAIN session_histories \ {req.session_id} :
          Len(session_histories[b]) = 2

\* the ids POST /upload reported as added, in the order of the responses
ReportedIds ==
    LET ok == SelectSeq(loop.uploaded, LAMBDA u : ~u.error)
    IN  [i \in 1..Len(ok) |-> ok[i].doc_id]

C27_WaitingDoesNotBlock ==
    (/\ req.pc = "general"
     /\ loop.waiting # EmptyBag
     /\ TurnsAppended < MaxLoopTurns
     /\ next_id < MaxLoopUploads)
    => ENABLED (ServeChat \/ ServeUpload)

\* the lists a list becomes when at most one of its elements is left out
WithoutAtMostOne(lst) ==
    {lst} \cup {SubSeq(lst, 1, k - 1) \o SubSeq(lst, k + 1, Len(lst)) :
                  k \in 1..Len(lst)}

\* C28: chat requests of one session that are at the server at the same time
\* leave a history of complete (question, answer) turns within the cap, in the
\* order the calls completed, from which at most one of the turns the calls
\* recorded is missing.
C28_OverlapIsBenign ==
    \A s \in DOMAIN session_histories :
        /\ Len(session_histories[s]) <= HISTORY_WINDOW
        /\ \A i \in 1..Len(session_histories[s]) :
              /\ Len(session_histories[s][i]) = 2
              /\ session_histories[s][i][1] \in LoopQuestions
              /\ session_histories[s][i][2] # ""
        /\ \E log \in WithoutAtMostOne(appended[s]) :
              session_histories[s] = LastN(log, HISTORY_WINDOW)

\* a call of a session is inside generate_answer after an earlier call of the
\* session was recorded, and a further request of the session is waiting
C28_Witness ==
    /\ req.pc = "general"
    /\ Len(Turns(req.session_id)) = 1
    /\ Turns(req.session_id)[1][1] # req.question
    /\ \E r \in BagToSet(loop.waiting) :
          r.op = "chat" /\ r.session_id = req.session_id

====
